---- MODULE Spec2Model ----
(***************************************************************************)
(* Model of packages/expect/src/jest-extend.ts: the matcher registration   *)
(* entry point (expect.extend), the fluent dispatch adapter, the           *)
(* asymmetric matcher adapter and the built-in call-order matcher          *)
(* toHaveBeenCalledBefore.                                                 *)
(***************************************************************************)
EXTENDS Integers, Sequences, FiniteSets, TLC

VARIABLES
    assertionProto,      \* c.Assertion.prototype: name -> soft-wrapped fluent method
    jestMatchers,        \* globalThis[JEST_MATCHERS_OBJECT].matchers
    asymmetricMatchers,  \* globalThis[ASYMMETRIC_MATCHERS_OBJECT]
    expectOwn,           \* own properties of each entry point: expect[name]
    expectNot,           \* the single expect.not object
    extendCount,         \* number of extend calls made so far
    lastExtend,          \* arguments of the most recent extend call, and whether
                         \* the call before it had the same arguments
    registeredBy,        \* per name: the latest extend call that processed it
    call,                \* the fluent invocation or asymmetric instance in hand
    customTesters        \* what getCustomEqualityTesters() returns now

vars == <<assertionProto, jestMatchers, asymmetricMatchers, expectOwn,
          expectNot, extendCount, lastExtend, registeredBy, call, customTesters>>

(***************************************************************************)
(* Bounds of the exploration.                                              *)
(***************************************************************************)
MaxExtends == 2   \* extend calls per behaviour
MaxOrder   == 3   \* largest invocation call order of a mock
MaxCalls   == 2   \* most recorded invocations per mock

(***************************************************************************)
(* JavaScript values.                                                      *)
(***************************************************************************)
Undefined == [kind |-> "undefined"]

Bool(b) == [kind |-> "bool", b |-> b]

Num(n) == [kind |-> "num", n |-> n]

\* a mock / spy function with its mock.invocationCallOrder record
Mock(order) == [kind |-> "mock", order |-> order]

\* JavaScript ToBoolean on the values above
Truthy(v) ==
    CASE v.kind = "undefined" -> FALSE
      [] v.kind = "bool"      -> v.b
      [] v.kind = "num"       -> v.n # 0
      [] OTHER                -> TRUE

\* args[i] of a JavaScript call: a missing argument reads as undefined
Arg(args, i) == IF i <= Len(args) THEN args[i] ELSE Undefined

(***************************************************************************)
(* Results of calling a matcher definition: a verdict, a promise of a      *)
(* verdict, or a thrown error.                                             *)
(***************************************************************************)
NoError == [type |-> "none", message |-> "", actual |-> Undefined, expected |-> Undefined]

Verdict(pass, message, actual, expected) ==
    [kind |-> "verdict", pass |-> pass, message |-> message,
     actual |-> actual, expected |-> expected, error |-> NoError]

\* a Promise that resolves to the verdict v
PromiseOf(v) == [v EXCEPT !.kind = "promise"]

\* a Promise that rejects with err: what an async matcher that throws returns
RejectionOf(err) ==
    [kind |-> "rejection", pass |-> FALSE, message |-> "",
     actual |-> Undefined, expected |-> Undefined, error |-> err]

Thrown(err) ==
    [kind |-> "throw", pass |-> FALSE, message |-> "",
     actual |-> Undefined, expected |-> Undefined, error |-> err]

NoResult ==
    [kind |-> "none", pass |-> FALSE, message |-> "",
     actual |-> Undefined, expected |-> Undefined, error |-> NoError]

(***************************************************************************)
(* The built-in call-order matcher.                                        *)
(***************************************************************************)
isJestMockOrSpy(v) == v.kind = "mock"

Min2(a, b) == IF a < b THEN a ELSE b

RECURSIVE MathMin(_)
MathMin(s) == IF Len(s) = 1 THEN s[1] ELSE Min2(s[1], MathMin(Tail(s)))

\* variant: compares the latest calls of the two mocks instead of the first
predicate_LastCalls(firstInvocationCallOrder, secondInvocationCallOrder, failIfNoSecondInvocation) ==
    IF Len(firstInvocationCallOrder) = 0 THEN FALSE
    ELSE IF Len(secondInvocationCallOrder) = 0 THEN ~Truthy(failIfNoSecondInvocation)
    ELSE firstInvocationCallOrder[Len(firstInvocationCallOrder)]
           < secondInvocationCallOrder[Len(secondInvocationCallOrder)]

predicate(firstInvocationCallOrder, secondInvocationCallOrder, failIfNoSecondInvocation) ==
    IF Len(firstInvocationCallOrder) = 0 THEN FALSE
    ELSE IF Len(secondInvocationCallOrder) = 0 THEN ~Truthy(failIfNoSecondInvocation)
    ELSE MathMin(firstInvocationCallOrder) < MathMin(secondInvocationCallOrder)

MsgReceivedNotMock == "Received value must be a mock or spy function"
MsgExpectedNotMock == "Expected value must be a mock or spy function"
MsgWasCalledBefore == "Expected first mock to not have been called before second mock, but it was."
MsgNotCalledBefore == "Expected first mock to have been called before second mock, but it was not."

\* variant: validates the expected side before the received side
toHaveBeenCalledBefore_ExpectedFirst(state, actual, expected, flagArg) ==
    IF ~isJestMockOrSpy(expected)
      THEN Verdict(FALSE, MsgExpectedNotMock, Undefined, Undefined)
    ELSE IF ~isJestMockOrSpy(actual)
      THEN Verdict(FALSE, MsgReceivedNotMock, Undefined, Undefined)
    ELSE LET pass == predicate(actual.order, expected.order,
                               IF flagArg = Undefined THEN Bool(TRUE) ELSE flagArg)
         IN  Verdict(pass, IF pass THEN MsgWasCalledBefore ELSE MsgNotCalledBefore,
                     Undefined, Undefined)

toHaveBeenCalledBefore(state, actual, expected, flagArg) ==
    LET failIfNoSecondInvocation == IF flagArg = Undefined THEN Bool(TRUE) ELSE flagArg
    IN  IF ~isJestMockOrSpy(actual)
          THEN Verdict(FALSE, MsgReceivedNotMock, Undefined, Undefined)
        ELSE IF ~isJestMockOrSpy(expected)
          THEN Verdict(FALSE, MsgExpectedNotMock, Undefined, Undefined)
        ELSE LET pass == predicate(actual.order, expected.order, failIfNoSecondInvocation)
             IN  Verdict(pass,
                         IF pass THEN MsgWasCalledBefore ELSE MsgNotCalledBefore,
                         Undefined, Undefined)

(***************************************************************************)
(* Matcher definitions handed to extend.  Besides the built-in there are   *)
(* four user definitions: one with a synchronous verdict, one whose        *)
(* verdict is deferred, one that throws instead of returning, and an       *)
(* async one that throws, so that its promise rejects.                     *)
(***************************************************************************)
BuiltinName == "toHaveBeenCalledBefore"

BuiltinFn == "toHaveBeenCalledBefore"

UserNames == {"toBeSample"}

Names == UserNames \cup {BuiltinName}

UserFns == {"sameAsSample", "sameAsSampleAsync", "buggyMatcher", "buggyMatcherAsync"}

Fns == UserFns \cup {BuiltinFn}

MsgSame    == "expected value not to be the sample"
MsgNotSame == "expected value to be the sample"

MatcherBug == [type |-> "Error", message |-> "matcher bug",
               actual |-> Undefined, expected |-> Undefined]

sameAsSample(state, obj, sample) ==
    Verdict(obj = sample, IF obj = sample THEN MsgSame ELSE MsgNotSame, obj, sample)

\* expectAssertion.call(state, obj, ...args)
expectAssertion(fn, state, obj, args) ==
    CASE fn = BuiltinFn           -> toHaveBeenCalledBefore(state, obj, Arg(args, 1), Arg(args, 2))
      [] fn = "sameAsSample"      -> sameAsSample(state, obj, Arg(args, 1))
      [] fn = "sameAsSampleAsync" -> PromiseOf(sameAsSample(state, obj, Arg(args, 1)))
      [] fn = "buggyMatcherAsync" -> RejectionOf(MatcherBug)
      [] OTHER                    -> Thrown(MatcherBug)

(***************************************************************************)
(* Matcher context builder.                                                *)
(***************************************************************************)
\* a live chai assertion: its subject, its flags and the entry point whose
\* expect(obj) created it
Assertion(obj, negate, soft) ==
    [obj |-> obj, negate |-> negate, soft |-> soft, promise |-> "", poll |-> FALSE,
     from |-> "expectA"]

NoAssertion == Assertion(Undefined, FALSE, FALSE)

\* the bundle getMatcherUtils() returns, with diff, stringify and the
\* equality helpers
MatcherUtils == "jestUtils"

\* variant: the ambient state is that of the entry point that made the assertion
getMatcherState_CreatorState(assertion, expect) ==
    [state |-> [ambient       |-> assertion.from,
                customTesters |-> customTesters,
                isNot         |-> assertion.negate,
                utils         |-> MatcherUtils,
                promise       |-> assertion.promise,
                soft          |-> assertion.soft,
                poll          |-> assertion.poll],
     isNot |-> assertion.negate,
     obj   |-> assertion.obj]

\* variant: the context is built once and reused: the testers are those of the
\* fluent invocation before this one
getMatcherState_Memoised(assertion, expect) ==
    [state |-> [ambient       |-> expect,
                customTesters |-> IF call.kind = "fluent" /\ call.op # "prepare"
                                    THEN call.out.state.customTesters
                                    ELSE customTesters,
                isNot         |-> assertion.negate,
                utils         |-> MatcherUtils,
                promise       |-> assertion.promise,
                soft          |-> assertion.soft,
                poll          |-> assertion.poll],
     isNot |-> assertion.negate,
     obj   |-> assertion.obj]

\* the state of the matcher call: getState(expect) of the entry point the
\* adapter was built for, the testers and utilities the accessors return now,
\* and the flags of the live assertion
getMatcherState(assertion, expect) ==
    [state |-> [ambient       |-> expect,
                customTesters |-> customTesters,
                isNot         |-> assertion.negate,
                utils         |-> MatcherUtils,
                promise       |-> assertion.promise,
                soft          |-> assertion.soft,
                poll          |-> assertion.poll],
     isNot |-> assertion.negate,
     obj   |-> assertion.obj]

\* AsymmetricMatcher.getMatcherContext(expect), as used by asymmetricMatch
getMatcherContext(expect, inverse) ==
    [ambient |-> expect, customTesters |-> customTesters, isNot |-> inverse,
     utils |-> MatcherUtils, promise |-> "", soft |-> FALSE, poll |-> FALSE]

(***************************************************************************)
(* Fluent dispatch adapter.                                                *)
(***************************************************************************)
JestExtendError(message, actual, expected) ==
    [type |-> "JestExtendError", message |-> message, actual |-> actual, expected |-> expected]

\* the state of a matcher call that was not made
NoState ==
    [ambient |-> "none", customTesters |-> <<>>, isNot |-> FALSE, utils |-> "none",
     promise |-> "", soft |-> FALSE, poll |-> FALSE]

\* what a fluent call did: how it ended, what it threw or collected, the
\* matcher result it was decided on, how often message() was evaluated, and
\* the state the matcher was called with
Outcome(status, error, result, isNot, msgEvals) ==
    [status |-> status, error |-> error, collected |-> NoError, value |-> Undefined,
     result |-> result, isNot |-> isNot, msgEvals |-> msgEvals, state |-> NoState]

\* variant: the decision rule without the negated half
Fails_IgnoreNegation(pass, isNot) == ~pass

\* the decision rule applied to a verdict
Fails(pass, isNot) == (pass /\ isNot) \/ (~pass /\ ~isNot)

\* variant: an error thrown by the definition is taken as a failing verdict
expectWrapper_CatchesError(fn, expect, assertion, args) ==
    LET ms     == getMatcherState(assertion, expect)
        result == expectAssertion(fn, ms.state, ms.obj, args)
    IN  CASE result.kind = "throw" ->
               IF Fails(FALSE, ms.isNot)
                 THEN Outcome("threw",
                              JestExtendError(result.error.message, Undefined, Undefined),
                              result, ms.isNot, 0)
                 ELSE Outcome("returned", NoError, result, ms.isNot, 0)
          [] result.kind \in {"promise", "rejection"} ->
               Outcome("pending", NoError, result, ms.isNot, 0)
          [] OTHER ->
               IF Fails(result.pass, ms.isNot)
                 THEN Outcome("threw",
                              JestExtendError(result.message, result.actual, result.expected),
                              result, ms.isNot, 1)
                 ELSE Outcome("returned", NoError, result, ms.isNot, 0)

\* variant: message() is evaluated as soon as the verdict is in hand
expectWrapper_EagerMessage(fn, expect, assertion, args) ==
    LET ms     == getMatcherState(assertion, expect)
        result == expectAssertion(fn, ms.state, ms.obj, args)
    IN  CASE result.kind = "throw" ->
               Outcome("threw", result.error, result, ms.isNot, 0)
          [] result.kind \in {"promise", "rejection"} ->
               Outcome("pending", NoError, result, ms.isNot, 0)
          [] OTHER ->
               IF Fails(result.pass, ms.isNot)
                 THEN Outcome("threw",
                              JestExtendError(result.message, result.actual, result.expected),
                              result, ms.isNot, 1)
                 ELSE Outcome("returned", NoError, result, ms.isNot, 1)

\* the adapter installed for one matcher: builds the context, calls the
\* definition, and applies the decision rule to its verdict

expectWrapper(fn, expect, assertion, args) ==
    LET ms     == getMatcherState(assertion, expect)
        result == expectAssertion(fn, ms.state, ms.obj, args)
        out    == CASE result.kind = "throw" ->
                         Outcome("threw", result.error, result, ms.isNot, 0)
                    [] result.kind \in {"promise", "rejection"} ->
                         Outcome("pending", NoError, result, ms.isNot, 0)
                    [] OTHER ->
                         IF Fails(result.pass, ms.isNot)
                           THEN Outcome("threw",
                                        JestExtendError(result.message, result.actual,
                                                        result.expected),
                                        result, ms.isNot, 1)
                           ELSE Outcome("returned", NoError, result, ms.isNot, 0)
    IN  [out EXCEPT !.state = ms.state]

\* variant: the callback reads the negate flag when it runs
thenCallback_LiveFlag(c) ==
    LET out == c.out
    IN  IF out.result.kind = "rejection"
          THEN [out EXCEPT !.status = "rejected", !.error = out.result.error]
        ELSE IF (out.result.pass /\ c.negateNow) \/ (~out.result.pass /\ ~c.negateNow)
          THEN [out EXCEPT !.status = "rejected",
                           !.error = JestExtendError(out.result.message, out.result.actual,
                                                     out.result.expected),
                           !.msgEvals = 1]
          ELSE [out EXCEPT !.status = "fulfilled"]

\* result.then(callback): the callback runs once the verdict has resolved,
\* with the isNot captured by the call; a promise that rejects skips the
\* callback and the returned promise rejects with the same error
thenCallback(c) ==
    LET out == c.out
    IN  IF out.result.kind = "rejection"
          THEN [out EXCEPT !.status = "rejected", !.error = out.result.error]
        ELSE IF Fails(out.result.pass, out.isNot)
          THEN [out EXCEPT !.status = "rejected",
                           !.error = JestExtendError(out.result.message, out.result.actual,
                                                     out.result.expected),
                           !.msgEvals = 1]
          ELSE [out EXCEPT !.status = "fulfilled"]

\* wrapSoft(utils, fn): with the soft flag set, whatever fn raises at call
\* time goes to the collection sink and the call returns normally
wrapSoft(out, assertion) ==
    IF assertion.soft /\ out.status = "threw"
      THEN [out EXCEPT !.status = "returned", !.collected = out.error, !.error = NoError]
      ELSE out

softWrapper(fn, expect, assertion, args) ==
    wrapSoft(expectWrapper(fn, expect, assertion, args), assertion)

(***************************************************************************)
(* Asymmetric matcher adapter.                                             *)
(***************************************************************************)
\* variant: new CustomMatcher(...sample), the first argument taken as inverse
CustomMatcher_SpreadOnly(ctor, sample) ==
    [fn |-> ctor.fn, name |-> ctor.name, expect |-> ctor.expect, id |-> ctor.id,
     inverse |-> Truthy(Arg(sample, 1)), sample |-> Tail(sample)]

\* new CustomMatcher(inverse, ...sample) of the class closed over fn and name
CustomMatcher(ctor, sample) ==
    [fn |-> ctor.fn, name |-> ctor.name, expect |-> ctor.expect, id |-> ctor.id,
     inverse |-> ctor.inverse, sample |-> sample]

\* { pass } = result, for a result that is a verdict or a Promise object
PassOf(result) == IF result.kind = "verdict" THEN Bool(result.pass) ELSE Undefined

\* variant: the definition is looked up under the instance's name in the
\* global matcher registry when the match is made
asymmetricMatch_LateBound(inst, other) ==
    LET result == expectAssertion(jestMatchers[inst.name].fn,
                                  getMatcherContext(inst.expect, inst.inverse),
                                  other, inst.sample)
    IN  IF result.kind = "throw"
          THEN [threw |-> TRUE, error |-> result.error, value |-> Undefined,
                result |-> result, msgEvals |-> 0]
          ELSE [threw |-> FALSE, error |-> NoError,
                value |-> IF inst.inverse THEN Bool(~Truthy(PassOf(result))) ELSE PassOf(result),
                result |-> result, msgEvals |-> 0]

\* variant: the value returned is coerced to a boolean, !!pass or !pass
asymmetricMatch_Coerces(inst, other) ==
    LET result == expectAssertion(inst.fn, getMatcherContext(inst.expect, inst.inverse),
                                  other, inst.sample)
    IN  IF result.kind = "throw"
          THEN [threw |-> TRUE, error |-> result.error, value |-> Undefined,
                result |-> result, msgEvals |-> 0]
          ELSE [threw |-> FALSE, error |-> NoError,
                value |-> Bool(Truthy(PassOf(result)) # inst.inverse),
                result |-> result, msgEvals |-> 0]

\* variant: returns pass whatever inverse is
asymmetricMatch_IgnoreInverse(inst, other) ==
    LET result == expectAssertion(inst.fn, getMatcherContext(inst.expect, inst.inverse),
                                  other, inst.sample)
    IN  IF result.kind = "throw"
          THEN [threw |-> TRUE, error |-> result.error, value |-> Undefined,
                result |-> result, msgEvals |-> 0]
          ELSE [threw |-> FALSE, error |-> NoError, value |-> PassOf(result),
                result |-> result, msgEvals |-> 0]

\* asymmetricMatch(other): only pass is read off the result (message is never
\* called), and the value returned is inverse ? !pass : pass
asymmetricMatch(inst, other) ==
    LET result == expectAssertion(inst.fn, getMatcherContext(inst.expect, inst.inverse),
                                  other, inst.sample)
    IN  IF result.kind = "throw"
          THEN [threw |-> TRUE, error |-> result.error, value |-> Undefined,
                result |-> result, msgEvals |-> 0]
          ELSE [threw |-> FALSE, error |-> NoError,
                value |-> IF inst.inverse THEN Bool(~Truthy(PassOf(result))) ELSE PassOf(result),
                result |-> result, msgEvals |-> 0]

\* toString()
toString(inst) == <<IF inst.inverse THEN "not." ELSE "", inst.name>>

(***************************************************************************)
(* Registration: JestExtendPlugin and the extend entry point.              *)
(***************************************************************************)
EntryPoints == {"expectA", "expectB"}

\* one entry of a MatchersObject; a MatchersObject is the sequence of its
\* entries in insertion order, with distinct names
Entry(name, fn) == [name |-> name, fn |-> fn]

HasName(matchers, name) == \E i \in 1..Len(matchers) : matchers[i].name = name

NamesOf(matchers) == {matchers[i].name : i \in 1..Len(matchers)}

Lookup(matchers, name) ==
    matchers[CHOOSE i \in 1..Len(matchers) : matchers[i].name = name].fn

\* variant: { toHaveBeenCalledBefore, ...matchers }
allMatchers_UserWins(matchers) ==
    IF HasName(matchers, BuiltinName) THEN matchers
    ELSE Append(matchers, Entry(BuiltinName, BuiltinFn))

\* variant: the built-in is not merged in
allMatchers_UserOnly(matchers) == matchers

\* { ...matchers, toHaveBeenCalledBefore }
allMatchers(matchers) ==
    IF HasName(matchers, BuiltinName)
      THEN [i \in 1..Len(matchers) |->
              IF matchers[i].name = BuiltinName THEN Entry(BuiltinName, BuiltinFn)
              ELSE matchers[i]]
      ELSE Append(matchers, Entry(BuiltinName, BuiltinFn))

\* variant: utils.overwriteMethod, which chains to the method already there
addMethod_Overwrite(ctx, name, method) ==
    (name :> [method EXCEPT !.super = IF name \in DOMAIN ctx THEN ctx[name].fn ELSE "none"])
    @@ ctx

\* utils.addMethod(ctx, name, method): plain assignment ctx[name] = method
addMethod(ctx, name, method) == (name :> method) @@ ctx

\* the attributes every property is defined with
PropertyDescriptor == [configurable |-> TRUE, enumerable |-> TRUE, writable |-> TRUE]

\* variant: a property already there is kept
defineProperty_KeepFirst(obj, name, value) == obj @@ (name :> (value @@ PropertyDescriptor))

\* Object.defineProperty(obj, name, { configurable, enumerable, value, writable }):
\* the property holds the value and the attributes; a property that is neither
\* configurable nor writable cannot be redefined
defineProperty(obj, name, value) ==
    IF name \in DOMAIN obj /\ ~obj[name].configurable /\ ~obj[name].writable
      THEN obj
      ELSE (name :> (value @@ PropertyDescriptor)) @@ obj

\* the soft-wrapped fluent method built for one entry
FluentMethod(fn, expect, id) ==
    [fn |-> fn, expect |-> expect, id |-> id, wrapped |-> "soft", super |-> "none"]

\* (...sample) => new CustomMatcher(inverse, ...sample)
Constructor(fn, name, expect, id, inverse) ==
    [fn |-> fn, name |-> name, expect |-> expect, id |-> id, inverse |-> inverse]

\* variant: the negated constructor is mirrored onto the global registry too
Install_MirrorsNegated(regs, expectAssertionName, fn, expect, id) ==
    LET method        == FluentMethod(fn, expect, id)
        customMatcher == Constructor(fn, expectAssertionName, expect, id, FALSE)
        notMatcher    == Constructor(fn, expectAssertionName, expect, id, TRUE)
    IN  [matchers |-> addMethod(regs.matchers, expectAssertionName, method),
         proto    |-> addMethod(regs.proto, expectAssertionName, method),
         own      |-> [regs.own EXCEPT
                         ![expect] = defineProperty(@, expectAssertionName, customMatcher)],
         not      |-> defineProperty(regs.not, expectAssertionName, notMatcher),
         asym     |-> defineProperty(defineProperty(regs.asym, expectAssertionName, customMatcher),
                                     expectAssertionName, notMatcher)]

\* variant: the fluent prototype gets the adapter itself, without the soft wrapper
Install_RawOnPrototype(regs, expectAssertionName, fn, expect, id) ==
    LET method        == FluentMethod(fn, expect, id)
        customMatcher == Constructor(fn, expectAssertionName, expect, id, FALSE)
        notMatcher    == Constructor(fn, expectAssertionName, expect, id, TRUE)
    IN  [matchers |-> addMethod(regs.matchers, expectAssertionName, method),
         proto    |-> addMethod(regs.proto, expectAssertionName,
                                [method EXCEPT !.wrapped = "none"]),
         own      |-> [regs.own EXCEPT
                         ![expect] = defineProperty(@, expectAssertionName, customMatcher)],
         not      |-> defineProperty(regs.not, expectAssertionName, notMatcher),
         asym     |-> defineProperty(regs.asym, expectAssertionName, customMatcher)]

\* variant: the positive constructor is not mirrored onto the global registry
Install_NoMirror(regs, expectAssertionName, fn, expect, id) ==
    LET method        == FluentMethod(fn, expect, id)
        customMatcher == Constructor(fn, expectAssertionName, expect, id, FALSE)
        notMatcher    == Constructor(fn, expectAssertionName, expect, id, TRUE)
    IN  [matchers |-> addMethod(regs.matchers, expectAssertionName, method),
         proto    |-> addMethod(regs.proto, expectAssertionName, method),
         own      |-> [regs.own EXCEPT
                         ![expect] = defineProperty(@, expectAssertionName, customMatcher)],
         not      |-> defineProperty(regs.not, expectAssertionName, notMatcher),
         asym     |-> regs.asym]

\* the body of the forEach callback for one [expectAssertionName, expectAssertion]
Install(regs, expectAssertionName, fn, expect, id) ==
    LET method        == FluentMethod(fn, expect, id)
        customMatcher == Constructor(fn, expectAssertionName, expect, id, FALSE)
        notMatcher    == Constructor(fn, expectAssertionName, expect, id, TRUE)
    IN  [matchers |-> addMethod(regs.matchers, expectAssertionName, method),
         proto    |-> addMethod(regs.proto, expectAssertionName, method),
         own      |-> [regs.own EXCEPT
                         ![expect] = defineProperty(@, expectAssertionName, customMatcher)],
         not      |-> defineProperty(regs.not, expectAssertionName, notMatcher),
         asym     |-> defineProperty(regs.asym, expectAssertionName, customMatcher)]

\* Object.entries(allMatchers).forEach(...)
RECURSIVE forEach(_, _, _, _)
forEach(regs, entries, expect, id) ==
    IF entries = <<>> THEN regs
    ELSE forEach(Install(regs, entries[1].name, entries[1].fn, expect, id),
                 Tail(entries), expect, id)

JestExtendPlugin(regs, expect, matchers, id) ==
    forEach(regs, allMatchers(matchers), expect, id)

Registries ==
    [matchers |-> jestMatchers, proto |-> assertionProto, own |-> expectOwn,
     not |-> expectNot, asym |-> asymmetricMatchers]

Empty == [n \in {} |-> Undefined]

NoExtend == [expect |-> "none", matchers |-> <<>>, again |-> FALSE, testers |-> <<>>]

\* chai.expect.extend(expect, expects)
JestExtend(expect, expects) ==
    /\ extendCount < MaxExtends
    /\ LET regs == JestExtendPlugin(Registries, expect, expects, extendCount + 1)
       IN  /\ jestMatchers' = regs.matchers
           /\ assertionProto' = regs.proto
           /\ expectOwn' = regs.own
           /\ expectNot' = regs.not
           /\ asymmetricMatchers' = regs.asym
    /\ extendCount' = extendCount + 1
    /\ lastExtend' = [expect |-> expect, matchers |-> expects,
                      again |-> (lastExtend.expect = expect /\ lastExtend.matchers = expects),
                      testers |-> customTesters]
    /\ registeredBy' =
         [n \in DOMAIN registeredBy \cup NamesOf(expects) \cup {BuiltinName} |->
            IF n = BuiltinName THEN [expect |-> expect, fn |-> BuiltinFn]
            ELSE IF HasName(expects, n) THEN [expect |-> expect, fn |-> Lookup(expects, n)]
            ELSE registeredBy[n]]
    /\ UNCHANGED <<call, customTesters>>

(***************************************************************************)
(* The call in hand: the latest fluent invocation (with its deferred       *)
(* result, if any) or the latest asymmetric instance.                      *)
(***************************************************************************)
NoOutcome == Outcome("none", NoError, NoResult, FALSE, 0)

NoCall ==
    [kind |-> "none", op |-> "none", name |-> "", fn |-> "none", expect |-> "none",
     id |-> 0, via |-> "none", assertion |-> NoAssertion, negateNow |-> FALSE,
     args |-> <<>>, inverse |-> FALSE, other |-> Undefined, out |-> NoOutcome]

\* variant: the invocation puts the raw adapter back under its name on the
\* global matcher registry
FluentCall_Reinstalls(name, assertion, args) ==
    /\ name \in DOMAIN assertionProto
    /\ LET method == assertionProto[name]
       IN  /\ call' = [kind |-> "fluent", op |-> "invoke", name |-> name, fn |-> method.fn,
                       expect |-> method.expect, id |-> method.id, via |-> "proto",
                       assertion |-> assertion, negateNow |-> assertion.negate,
                       args |-> args, inverse |-> FALSE,
                       other |-> Undefined,
                       out |-> softWrapper(method.fn, method.expect, assertion, args)]
           /\ jestMatchers' = addMethod(jestMatchers, name, [method EXCEPT !.wrapped = "none"])
    /\ UNCHANGED <<assertionProto, asymmetricMatchers, expectOwn,
                   expectNot, extendCount, lastExtend, registeredBy, customTesters>>

\* expect(obj)[.not][.soft].name(...args): the method found on the prototype runs
FluentCall(name, assertion, args) ==
    /\ name \in DOMAIN assertionProto
    /\ LET method == assertionProto[name]
       IN  call' = [kind |-> "fluent", op |-> "invoke", name |-> name, fn |-> method.fn,
                    expect |-> method.expect, id |-> method.id, via |-> "proto",
                    assertion |-> assertion, negateNow |-> assertion.negate,
                    args |-> args, inverse |-> FALSE,
                    other |-> Undefined,
                    out |-> IF method.wrapped = "soft"
                              THEN softWrapper(method.fn, method.expect, assertion, args)
                              ELSE expectWrapper(method.fn, method.expect, assertion, args)]
    /\ UNCHANGED <<assertionProto, jestMatchers, asymmetricMatchers, expectOwn,
                   expectNot, extendCount, lastExtend, registeredBy, customTesters>>

\* the verdict promise of a deferred call resolves and the then-callback runs
Settle ==
    /\ call.kind = "fluent"
    /\ call.out.status = "pending"
    /\ call' = [call EXCEPT !.op = "settle", !.out = thenCallback(call)]
    /\ UNCHANGED <<assertionProto, jestMatchers, asymmetricMatchers, expectOwn,
                   expectNot, extendCount, lastExtend, registeredBy, customTesters>>

\* util.flag(assertion, 'negate', ...): the negate flag of the live assertion
\* is changed while its call is pending (call.assertion keeps the flags the
\* call was made with, call.negateNow is the flag as it is now)
SetNegate ==
    /\ call.kind = "fluent"
    /\ call.out.status = "pending"
    /\ call' = [call EXCEPT !.op = "flag", !.negateNow = ~call.negateNow]
    /\ UNCHANGED <<assertionProto, jestMatchers, asymmetricMatchers, expectOwn,
                   expectNot, extendCount, lastExtend, registeredBy, customTesters>>

\* the testers one call of expect.addEqualityTesters registers
Testers == <<"tester">>

\* expect.addEqualityTesters(Testers): from now on the accessor returns them
AddEqualityTesters ==
    /\ customTesters = <<>>
    /\ customTesters' = Testers
    /\ UNCHANGED <<assertionProto, jestMatchers, asymmetricMatchers, expectOwn,
                   expectNot, extendCount, lastExtend, registeredBy, call>>

\* the constructors reachable through a surface: an entry point's own
\* properties, the global asymmetric registry, or the shared expect.not
Surfaces == EntryPoints \cup {"global", "not"}

SurfaceOf(via) ==
    CASE via = "global" -> asymmetricMatchers
      [] via = "not"    -> expectNot
      [] OTHER          -> expectOwn[via]

\* expect.name(...sample) / expect.not.name(...sample)
Construct(via, name, sample) ==
    /\ name \in DOMAIN SurfaceOf(via)
    /\ LET inst == CustomMatcher(SurfaceOf(via)[name], sample)
       IN  call' = [kind |-> "asym", op |-> "construct", name |-> inst.name, fn |-> inst.fn,
                    expect |-> inst.expect, id |-> inst.id, via |-> via,
                    assertion |-> NoAssertion, negateNow |-> FALSE, args |-> inst.sample,
                    inverse |-> inst.inverse, other |-> Undefined,
                    out |-> [NoOutcome EXCEPT !.status = "constructed"]]
    /\ UNCHANGED <<assertionProto, jestMatchers, asymmetricMatchers, expectOwn,
                   expectNot, extendCount, lastExtend, registeredBy, customTesters>>

\* the instance in hand, as CustomMatcher built it
Instance ==
    [fn |-> call.fn, name |-> call.name, expect |-> call.expect, id |-> call.id,
     inverse |-> call.inverse, sample |-> call.args]

\* the equality algorithm meets the instance and calls asymmetricMatch(other)
Match(other) ==
    /\ call.kind = "asym"
    /\ LET m == asymmetricMatch(Instance, other)
       IN  call' = [call EXCEPT
                      !.op = "match", !.other = other,
                      !.out = [NoOutcome EXCEPT
                                 !.status = IF m.threw THEN "threw" ELSE "returned",
                                 !.error = m.error, !.value = m.value,
                                 !.result = m.result, !.isNot = call.inverse,
                                 !.msgEvals = m.msgEvals]]
    /\ UNCHANGED <<assertionProto, jestMatchers, asymmetricMatchers, expectOwn,
                   expectNot, extendCount, lastExtend, registeredBy, customTesters>>

(***************************************************************************)
(* Inputs.                                                                 *)
(***************************************************************************)
\* the MatchersObjects handed to extend: the empty one, each user definition
\* under the user name, a user definition under the built-in's name, and one
\* object with both names
MatcherMaps ==
    {<<>>}
    \cup {<<Entry(n, f)>> : n \in UserNames, f \in UserFns}
    \cup {<<Entry(BuiltinName, "sameAsSample")>>}
    \cup {<<Entry("toBeSample", "sameAsSample"), Entry(BuiltinName, "buggyMatcher")>>}

\* subjects, arguments and samples: a plain number and a mock called once
Values == {Num(0), Mock(<<1>>)}

Assertions(objs) == {Assertion(obj, negate, soft) : obj \in objs, negate \in BOOLEAN, soft \in BOOLEAN}

\* the arguments of a fluent call and the sample of an asymmetric matcher
ArgLists == {<<Num(0)>>}

Init ==
    /\ assertionProto = Empty
    /\ jestMatchers = Empty
    /\ asymmetricMatchers = Empty
    /\ expectOwn = [e \in EntryPoints |-> Empty]
    /\ expectNot = Empty
    /\ extendCount = 0
    /\ lastExtend = NoExtend
    /\ registeredBy = Empty
    /\ call = NoCall
    /\ customTesters = <<>>

Next ==
    \/ \E expect \in EntryPoints, expects \in MatcherMaps : JestExtend(expect, expects)
    \/ \E name \in Names, assertion \in Assertions(Values), args \in ArgLists :
         FluentCall(name, assertion, args)
    \/ Settle
    \/ SetNegate
    \/ \E via \in Surfaces, name \in Names, sample \in ArgLists : Construct(via, name, sample)
    \/ \E other \in Values : Match(other)

Spec == Init /\ [][Next]_vars

(***************************************************************************)
(* The call-order matcher on its own: the built-in is registered and then  *)
(* invoked through the fluent method on every pair of mocks and non-mocks. *)
(***************************************************************************)
\* invocationCallOrder records: strictly increasing call numbers
CallOrders ==
    {s \in UNION {[1..k -> 1..MaxOrder] : k \in 0..MaxCalls} :
       \A i \in 1..Len(s) : i < Len(s) => s[i] < s[i + 1]}

CallOrderValues == {Num(0)} \cup {Mock(s) : s \in CallOrders}

Range(s) == {s[i] : i \in 1..Len(s)}

\* two mocks are the same mock or share no call number
Compatible(a, b) ==
    (a.kind = "mock" /\ b.kind = "mock") => (a = b \/ Range(a.order) \cap Range(b.order) = {})

CallOrderArgs ==
    {<<e>> : e \in CallOrderValues}
    \cup {<<e, Bool(f)>> : e \in CallOrderValues, f \in BOOLEAN}

\* a fluent call about to be made: expect(actual)[.not].toHaveBeenCalledBefore(...args)
Prepared(assertion, args) ==
    [NoCall EXCEPT !.kind = "fluent", !.op = "prepare", !.name = BuiltinName,
                   !.assertion = assertion, !.negateNow = assertion.negate, !.args = args]

InitCallOrder ==
    /\ assertionProto = Empty
    /\ jestMatchers = Empty
    /\ asymmetricMatchers = Empty
    /\ expectOwn = [e \in EntryPoints |-> Empty]
    /\ expectNot = Empty
    /\ extendCount = 0
    /\ lastExtend = NoExtend
    /\ registeredBy = Empty
    /\ customTesters = <<>>
    /\ \E assertion \in Assertions(CallOrderValues), args \in CallOrderArgs :
         /\ Compatible(assertion.obj, args[1])
         /\ call = Prepared(assertion, args)

NextCallOrder ==
    \/ \E expect \in EntryPoints : JestExtend(expect, <<>>)
    \/ /\ call.op = "prepare"
       /\ FluentCall(call.name, call.assertion, call.args)

SpecCallOrder == InitCallOrder /\ [][NextCallOrder]_vars

(***************************************************************************)
(* The matcher context on its own: one user name is registered and         *)
(* re-registered by either entry point, custom equality testers are added  *)
(* at any moment, and the fluent methods are invoked on assertions made by *)
(* either entry point with every combination of flags.                     *)
(***************************************************************************)
ContextMaps == {<<Entry("toBeSample", f)>> : f \in {"sameAsSample", "sameAsSampleAsync"}}

\* the values of the promise flag: not set, or set by .resolves
PromiseFlags == {"", "resolves"}

ContextAssertions ==
    {[Assertion(Num(0), negate, soft) EXCEPT !.promise = promise, !.poll = poll, !.from = from] :
       negate \in BOOLEAN, soft \in BOOLEAN, promise \in PromiseFlags, poll \in BOOLEAN,
       from \in EntryPoints}

NextContext ==
    \/ \E expect \in EntryPoints, expects \in ContextMaps : JestExtend(expect, expects)
    \/ \E name \in UserNames, assertion \in ContextAssertions, args \in ArgLists :
         FluentCall(name, assertion, args)
    \/ Settle
    \/ AddEqualityTesters

SpecContext == Init /\ [][NextContext]_vars

(***************************************************************************)
(* Properties.                                                             *)
(***************************************************************************)
\* the call in hand is a fluent invocation that has just run
Invoked == call.kind = "fluent" /\ call.op = "invoke"

\* the structured failure built from the verdict the matcher returned
FailureOf(result) ==
    [type |-> "JestExtendError", message |-> result.message,
     actual |-> result.actual, expected |-> result.expected]

\* C1 as stated: for a synchronous verdict, the installed fluent method raises
\* the structured failure (message, actual, expected of the verdict) exactly
\* when pass equals isNot, and otherwise returns normally with no value.
C1_RaisesIffPassEqualsIsNot ==
    (Invoked /\ call.out.result.kind = "verdict") =>
        IF call.out.result.pass = call.assertion.negate
          THEN call.out.status = "threw" /\ call.out.error = FailureOf(call.out.result)
          ELSE /\ call.out.status = "returned"
               /\ call.out.value = Undefined
               /\ call.out.error = NoError

\* C1 amended: the same, for an assertion whose soft flag is not set.
C1_RaisesIffPassEqualsIsNot_NotSoft ==
    (Invoked /\ call.out.result.kind = "verdict" /\ ~call.assertion.soft) =>
        IF call.out.result.pass = call.assertion.negate
          THEN call.out.status = "threw" /\ call.out.error = FailureOf(call.out.result)
          ELSE /\ call.out.status = "returned"
               /\ call.out.value = Undefined
               /\ call.out.error = NoError

\* a passing verdict under negation, not soft: the failure is raised
C1_Witness ==
    /\ Invoked
    /\ call.out.result.kind = "verdict"
    /\ call.out.result.pass
    /\ call.assertion.negate
    /\ ~call.assertion.soft
    /\ call.out.status = "threw"

\* the call in hand is a fluent invocation whose matcher returned a promise
Deferred == call.kind = "fluent" /\ call.out.result.kind = "promise"

\* C2: a fluent call on a matcher that returns a promise raises nothing at call
\* time and returns a pending deferred value; that value is settled only by the
\* verdict resolving, rejected with the structured failure exactly when pass
\* equals the isNot read at call time and fulfilled otherwise.
C2_DeferredVerdict ==
    /\ [](Deferred =>
            \/ /\ call.out.status = "pending"
               /\ call.out.error = NoError
               /\ call.out.collected = NoError
            \/ /\ call.out.status = "rejected"
               /\ call.out.result.pass = call.assertion.negate
               /\ call.out.error = FailureOf(call.out.result)
            \/ /\ call.out.status = "fulfilled"
               /\ call.out.result.pass # call.assertion.negate
               /\ call.out.error = NoError)
    /\ [][/\ (call' # call /\ call'.op = "invoke" /\ call'.out.result.kind = "promise")
             => call'.out.status = "pending"
          /\ (call'.out # call.out /\ call'.out.status \in {"rejected", "fulfilled"})
             => (call.out.status = "pending" /\ call'.op = "settle")]_vars

\* a deferred call rejected on the flag it was made with, although the live
\* assertion's negate flag was changed before the verdict resolved
C2_Witness ==
    /\ Deferred
    /\ call.out.status = "rejected"
    /\ call.negateNow # call.assertion.negate

\* the call in hand is an asymmetric instance on which match(other) returned
Matched == call.kind = "asym" /\ call.op = "match" /\ call.out.status = "returned"

\* M's verdict on (other, ...sample); for a deferred M, the verdict it resolves to
VerdictOnSample ==
    expectAssertion(call.fn, getMatcherContext(call.expect, FALSE), call.other, call.args)

PositiveMatch == asymmetricMatch([Instance EXCEPT !.inverse = FALSE], call.other).value

NegatedMatch == asymmetricMatch([Instance EXCEPT !.inverse = TRUE], call.other).value

\* C3 as stated: for every registered matcher, the positive instance's
\* match(other) is the pass of M's verdict on (other, ...sample) and the negated
\* instance's match(other) is its negation.
C3_MatchIsPass ==
    Matched =>
        /\ call.out.value = (IF call.inverse THEN NegatedMatch ELSE PositiveMatch)
        /\ PositiveMatch = Bool(VerdictOnSample.pass)
        /\ NegatedMatch = Bool(~VerdictOnSample.pass)

\* C3 amended: the same, for every registered matcher whose verdict is produced
\* synchronously.
C3_MatchIsPass_Sync ==
    (Matched /\ call.out.result.kind = "verdict") =>
        /\ call.out.value = (IF call.inverse THEN NegatedMatch ELSE PositiveMatch)
        /\ PositiveMatch = Bool(VerdictOnSample.pass)
        /\ NegatedMatch = Bool(~VerdictOnSample.pass)

\* a negated instance matched against a value its matcher passes: match is false
C3_Witness ==
    /\ Matched
    /\ call.inverse
    /\ call.out.result.kind = "verdict"
    /\ call.out.result.pass
    /\ call.out.value = Bool(FALSE)

\* every surface on which the latest extend call installed the name n
InstalledFns(n) ==
    {assertionProto[n].fn, jestMatchers[n].fn, asymmetricMatchers[n].fn,
     expectNot[n].fn, expectOwn[lastExtend.expect][n].fn}

\* C4 as stated: when the mapping given to extend has an entry named
\* toHaveBeenCalledBefore, every surface dispatches that name to the
\* user-supplied definition after the call.
C4_UserShadowsBuiltin ==
    HasName(lastExtend.matchers, BuiltinName) =>
        InstalledFns(BuiltinName) = {Lookup(lastExtend.matchers, BuiltinName)}

\* C4 amended: the built-in shadows the user-supplied entry: after that extend
\* call every surface dispatches toHaveBeenCalledBefore to the built-in, and so
\* does every fluent call and every asymmetric instance of that name.
C4_BuiltinShadowsUser ==
    /\ HasName(lastExtend.matchers, BuiltinName) => InstalledFns(BuiltinName) = {BuiltinFn}
    /\ (call.kind \in {"fluent", "asym"} /\ call.op # "prepare" /\ call.name = BuiltinName)
         => call.fn = BuiltinFn

\* a fluent call of toHaveBeenCalledBefore through the method installed by an
\* extend call whose mapping had a user entry of that name
C4_Witness ==
    /\ HasName(lastExtend.matchers, BuiltinName)
    /\ Invoked
    /\ call.name = BuiltinName
    /\ call.id = extendCount
    /\ call.out.result.message = MsgReceivedNotMock

\* C5: every name is present in all three process-wide registries (fluent
\* prototype, global matcher registry, global asymmetric registry) or in none.
C5_RegistriesAgree ==
    /\ DOMAIN assertionProto = DOMAIN jestMatchers
    /\ DOMAIN jestMatchers = DOMAIN asymmetricMatchers

\* two extend calls made, a user name among the registered ones
C5_Witness ==
    /\ extendCount = 2
    /\ "toBeSample" \in DOMAIN asymmetricMatchers
    /\ BuiltinName \in DOMAIN assertionProto

\* what callers can observe of a fluent method and of a constructor: the
\* definition it dispatches to, the entry point it is bound to and its shape,
\* but not which extend call created it
ObservedMethod(m) ==
    [fn |-> m.fn, expect |-> m.expect, wrapped |-> m.wrapped, super |-> m.super]

ObservedConstructor(c) ==
    [fn |-> c.fn, name |-> c.name, expect |-> c.expect, inverse |-> c.inverse,
     configurable |-> c.configurable, enumerable |-> c.enumerable, writable |-> c.writable]

ObservedMethods(ctx) == [n \in DOMAIN ctx |-> ObservedMethod(ctx[n])]

ObservedConstructors(obj) == [n \in DOMAIN obj |-> ObservedConstructor(obj[n])]

Observable ==
    [proto    |-> ObservedMethods(assertionProto),
     matchers |-> ObservedMethods(jestMatchers),
     asym     |-> ObservedConstructors(asymmetricMatchers),
     not      |-> ObservedConstructors(expectNot),
     own      |-> [e \in EntryPoints |-> ObservedConstructors(expectOwn[e])]]

\* the pass/fail behaviour of every fluent method on every assertion
Behaviour ==
    [n \in DOMAIN assertionProto |->
       [a \in Assertions(Values) |->
          softWrapper(assertionProto[n].fn, assertionProto[n].expect, a, <<Num(0)>>)]]

\* C6: an extend call with the same entry point and the same mapping as the
\* extend call before it leaves the observable state of the registries, and
\* the behaviour of every fluent method, as they were.
C6_ExtendIdempotent ==
    [][(extendCount' = extendCount + 1 /\ lastExtend'.again)
         => (Observable' = Observable /\ Behaviour' = Behaviour)]_vars

\* extend was just called a second time in a row with a mapping that has a user entry
C6_Witness ==
    /\ lastExtend.again
    /\ HasName(lastExtend.matchers, "toBeSample")
    /\ assertionProto["toBeSample"].id = extendCount
    /\ assertionProto["toBeSample"].super = "none"

\* the call in hand is a fluent call of the built-in on two mocks
OnMocks ==
    /\ Invoked
    /\ call.fn = BuiltinFn
    /\ call.assertion.obj.kind = "mock"
    /\ call.args[1].kind = "mock"

\* failIfNoSecondInvocation as the call gave it, true by default
FlagGiven == IF Len(call.args) >= 2 THEN call.args[2].b ELSE TRUE

\* C7: on two valid mocks with invocation orders a and b, pass is false when a
\* is empty, otherwise not failIfNoSecondInvocation when b is empty, otherwise
\* min(a) < min(b).
C7_CallOrderVerdict ==
    OnMocks =>
        LET a == Range(call.assertion.obj.order)
            b == Range(call.args[1].order)
        IN  /\ call.out.result.kind = "verdict"
            /\ call.out.result.pass =
                 (IF a = {} THEN FALSE
                  ELSE IF b = {} THEN ~FlagGiven
                  ELSE \E x \in a : \A y \in b : x < y)

\* the first mock called first and last, the second in between: it passes
C7_Witness ==
    /\ OnMocks
    /\ call.assertion.obj.order = <<1, 3>>
    /\ call.args[1].order = <<2>>
    /\ call.out.result.pass

\* the call in hand is a fluent call of the built-in with a non-mock on a side
OnNonMock ==
    /\ Invoked
    /\ call.fn = BuiltinFn
    /\ (call.assertion.obj.kind # "mock" \/ call.args[1].kind # "mock")

\* C8: with a non-mock actual or expected the built-in throws nothing and
\* returns pass = false whatever the orders and the flag, with the
\* 'Received value must be ...' message when actual is invalid and the
\* 'Expected value must be ...' message when only expected is; the verdict goes
\* through the decision rule like any failing verdict (raised in the positive
\* form, accepted in the negated form).
C8_NonMockVerdict ==
    OnNonMock =>
        /\ call.out.result.kind = "verdict"
        /\ ~call.out.result.pass
        /\ call.out.result.message =
             (IF call.assertion.obj.kind # "mock"
                THEN "Received value must be a mock or spy function"
                ELSE "Expected value must be a mock or spy function")
        /\ ~call.assertion.soft =>
             IF call.assertion.negate
               THEN call.out.status = "returned" /\ call.out.error = NoError
               ELSE call.out.status = "threw" /\ call.out.error = FailureOf(call.out.result)

\* both sides invalid, positive form: raised with the message naming the received side
C8_Witness ==
    /\ OnNonMock
    /\ call.assertion.obj.kind # "mock"
    /\ call.args[1].kind # "mock"
    /\ Len(call.args) = 2
    /\ ~call.assertion.negate
    /\ call.out.status = "threw"
    /\ call.out.error.message = "Received value must be a mock or spy function"

\* C9: after any extend call, toHaveBeenCalledBefore is registered on the
\* fluent prototype, the global matcher registry, the calling entry point's own
\* positive and not.* constructors and the global asymmetric registry.
C9_BuiltinAlwaysRegistered ==
    extendCount > 0 =>
        /\ BuiltinName \in DOMAIN assertionProto
        /\ BuiltinName \in DOMAIN jestMatchers
        /\ BuiltinName \in DOMAIN expectOwn[lastExtend.expect]
        /\ BuiltinName \in DOMAIN expectNot
        /\ BuiltinName \in DOMAIN asymmetricMatchers

\* extend was just called with an empty mapping
C9_Witness ==
    /\ extendCount > 0
    /\ lastExtend.matchers = <<>>
    /\ BuiltinName \in DOMAIN expectOwn[lastExtend.expect]

\* a fluent invocation or an asymmetric construction has just been made
JustCalled == call' # call /\ call'.op \in {"invoke", "construct"}

\* C10 as stated: every fluent invocation of N and every asymmetric instance
\* constructed after the extend calls dispatches to the definition of the most
\* recent extend call that registered N.
C10_LatestDefinitionWins ==
    [][JustCalled => call'.fn = registeredBy[call'.name].fn]_vars

\* C10 amended: each registry holds one entry for N, that of the most recent
\* extend call that registered N; every fluent invocation of N dispatches to
\* it, and so does every asymmetric instance constructed through the global
\* asymmetric registry, through expect.not, or through the entry point that
\* made that call.  The own constructor N of another entry point stays bound to
\* the definition of that entry point's own latest registration of N.
C10_LatestDefinitionWins_Shared ==
    /\ [](\A n \in DOMAIN registeredBy :
            /\ n \in DOMAIN assertionProto
            /\ n \in DOMAIN expectOwn[registeredBy[n].expect]
            /\ {assertionProto[n].fn, jestMatchers[n].fn, asymmetricMatchers[n].fn,
                expectNot[n].fn, expectOwn[registeredBy[n].expect][n].fn}
                 = {registeredBy[n].fn})
    /\ [][(JustCalled /\ call'.via \in {"proto", "global", "not", registeredBy[call'.name].expect})
            => call'.fn = registeredBy[call'.name].fn]_vars

\* an instance built through the global registry with the latest definition of
\* a name for which another entry point still holds an earlier, different one
C10_Witness ==
    /\ call.kind = "asym"
    /\ call.op = "construct"
    /\ call.via = "global"
    /\ call.id = extendCount
    /\ \E e \in EntryPoints :
         /\ call.name \in DOMAIN expectOwn[e]
         /\ expectOwn[e][call.name].fn # call.fn

\* C11: the message function of a verdict is evaluated only to report a
\* failure: a fluent invocation, synchronous or deferred, has evaluated it
\* exactly once when pass equals isNot and the failure has been built, and not
\* at all when the assertion succeeds, is still pending, or the matcher threw;
\* asymmetricMatch never evaluates it.
C11_MessageOnlyOnFailure ==
    /\ (call.kind = "fluent" /\ call.out.result.kind = "verdict") =>
          call.out.msgEvals = (IF call.out.result.pass = call.assertion.negate THEN 1 ELSE 0)
    /\ (call.kind = "fluent" /\ call.out.result.kind = "promise") =>
          call.out.msgEvals =
            (IF call.out.status # "pending" /\ call.out.result.pass = call.assertion.negate
               THEN 1 ELSE 0)
    /\ (call.kind = "fluent" /\ call.out.result.kind \in {"throw", "rejection"}) =>
          call.out.msgEvals = 0
    /\ call.kind = "asym" => call.out.msgEvals = 0
    /\ call.out.msgEvals = 1 <=>
          (call.out.error.type = "JestExtendError" \/ call.out.collected.type = "JestExtendError")

\* a deferred verdict resolved to a failure: message was evaluated once, by the
\* then-callback
C11_Witness ==
    /\ Deferred
    /\ call.out.status = "rejected"
    /\ call.out.msgEvals = 1
    /\ call.out.error.message = MsgNotSame

\* the five registries: fluent prototype, global matcher registry, global
\* asymmetric registry, and the entry points' own positive and not.* constructors
AllRegistries == <<assertionProto, jestMatchers, asymmetricMatchers, expectOwn, expectNot>>

\* C12: a matcher invocation (a fluent call that passes, fails or is deferred,
\* the settling of a deferred call, the construction of an asymmetric instance,
\* asymmetricMatch) leaves every registry as it was; a registry changes only in
\* a step that is an extend call.
C12_OnlyExtendWrites ==
    /\ [][call' # call => AllRegistries' = AllRegistries]_vars
    /\ [][AllRegistries' # AllRegistries => extendCount' = extendCount + 1]_vars

\* a deferred call made and settled with both names registered
C12_Witness ==
    /\ Deferred
    /\ call.out.status = "fulfilled"
    /\ DOMAIN assertionProto = Names
    /\ DOMAIN expectNot = Names

\* what the fluent adapter itself did on the invocation in hand, before the
\* soft wrapper around it saw the outcome
AdapterOutcome == expectWrapper(call.fn, call.expect, call.assertion, call.args)

\* C13: an error thrown by the matcher definition is not caught, converted or
\* wrapped by the fluent adapter or by the asymmetric adapter: the adapter
\* throws the original error, which is not a structured failure, whether or not
\* the assertion or the instance is negated; a definition whose promise rejects
\* makes the deferred value reject with the original error; in neither case is
\* the call turned into a success.
C13_MatcherErrorPropagates ==
    /\ (Invoked /\ call.out.result.kind = "throw") =>
          /\ AdapterOutcome.status = "threw"
          /\ AdapterOutcome.error = MatcherBug
          /\ AdapterOutcome.error.type # "JestExtendError"
          /\ ~call.assertion.soft => call.out = AdapterOutcome
    /\ (call.kind = "fluent" /\ call.out.result.kind = "rejection") =>
          \/ call.out.status = "pending"
          \/ call.out.status = "rejected" /\ call.out.error = MatcherBug
    /\ (call.kind = "asym" /\ call.op = "match" /\ call.out.result.kind = "throw") =>
          /\ call.out.status = "threw"
          /\ call.out.error = MatcherBug
          /\ call.out.value = Undefined

\* a negated, not soft assertion on a matcher that throws: the call throws the
\* matcher's own error
C13_Witness ==
    /\ Invoked
    /\ call.out.result.kind = "throw"
    /\ call.assertion.negate
    /\ ~call.assertion.soft
    /\ call.out.status = "threw"
    /\ call.out.error = MatcherBug

\* C14: for every registered name, the function on the fluent prototype and
\* the function on the global matcher registry are one and the same function,
\* the soft-wrapped adapter created by the extend call that registered the name;
\* the adapter without the soft wrapper is installed nowhere, so every fluent
\* invocation goes through the soft wrapper.
C14_SameSoftWrappedAdapter ==
    /\ \A n \in DOMAIN assertionProto \cup DOMAIN jestMatchers :
          /\ n \in DOMAIN assertionProto
          /\ n \in DOMAIN jestMatchers
          /\ assertionProto[n] = jestMatchers[n]
          /\ assertionProto[n].wrapped = "soft"
          /\ jestMatchers[n].wrapped = "soft"
    /\ Invoked => call.out = wrapSoft(AdapterOutcome, call.assertion)

\* a soft assertion failed through the method both registries share: the
\* failure went to the collection sink
C14_Witness ==
    /\ Invoked
    /\ call.assertion.soft
    /\ call.out.status = "returned"
    /\ call.out.collected.type = "JestExtendError"
    /\ call.id = extendCount
    /\ assertionProto[call.name] = jestMatchers[call.name]

\* the names processed by the latest extend call
ProcessedNames == NamesOf(lastExtend.matchers) \cup {BuiltinName}

Overwritable(property) ==
    property.configurable /\ property.writable /\ property.enumerable

\* C15: when an extend call on entry point E returns, for every name N it
\* processed, E.N and the global asymmetric registry's N are one and the same
\* positive constructor (its instances have inverse = false) and E.not.N is a
\* constructor whose instances have inverse = true, all three created by this
\* call in place of whatever was there; the three properties are configurable,
\* writable and enumerable; no negated constructor is ever on the global
\* asymmetric registry.
C15_ConstructorsInstalled ==
    /\ extendCount > 0 =>
          \A n \in ProcessedNames :
             /\ n \in DOMAIN expectOwn[lastExtend.expect]
             /\ n \in DOMAIN asymmetricMatchers
             /\ n \in DOMAIN expectNot
             /\ expectOwn[lastExtend.expect][n] = asymmetricMatchers[n]
             /\ asymmetricMatchers[n].id = extendCount
             /\ expectNot[n].id = extendCount
             /\ \A sample \in ArgLists :
                   /\ ~CustomMatcher(expectOwn[lastExtend.expect][n], sample).inverse
                   /\ ~CustomMatcher(asymmetricMatchers[n], sample).inverse
                   /\ CustomMatcher(expectNot[n], sample).inverse
             /\ Overwritable(expectOwn[lastExtend.expect][n])
             /\ Overwritable(asymmetricMatchers[n])
             /\ Overwritable(expectNot[n])
    /\ \A n \in DOMAIN asymmetricMatchers : ~asymmetricMatchers[n].inverse

\* a second entry point has just registered a name the first one had
\* registered: the global constructor and expect.not's were replaced
C15_Witness ==
    /\ extendCount = 2
    /\ lastExtend.expect = "expectB"
    /\ HasName(lastExtend.matchers, "toBeSample")
    /\ "toBeSample" \in DOMAIN expectOwn["expectA"]
    /\ expectOwn["expectA"]["toBeSample"].id = 1
    /\ asymmetricMatchers["toBeSample"] = expectOwn["expectB"]["toBeSample"]
    /\ expectNot["toBeSample"].id = 2

\* C16 as stated: match(other) never suspends and returns a boolean for every
\* registered matcher, a matcher whose verdict is deferred included.
C16_MatchAlwaysBoolean ==
    /\ (call.kind = "asym" /\ call.op = "match") => call.out.status \in {"returned", "threw"}
    /\ Matched => call.out.value \in {Bool(TRUE), Bool(FALSE)}

\* C16 amended: match(other) never suspends: it has returned or thrown when the
\* call ends.  It returns a boolean for every matcher whose verdict is produced
\* synchronously.  For a matcher that returns a promise it does not wait for
\* the verdict: the positive instance returns undefined and the negated
\* instance returns true, whatever the promise settles to.
C16_MatchReturnsAtOnce ==
    /\ (call.kind = "asym" /\ call.op = "match") => call.out.status \in {"returned", "threw"}
    /\ (Matched /\ call.out.result.kind = "verdict") =>
          call.out.value \in {Bool(TRUE), Bool(FALSE)}
    /\ (Matched /\ call.out.result.kind \in {"promise", "rejection"}) =>
          call.out.value = (IF call.inverse THEN Bool(TRUE) ELSE Undefined)

\* a positive instance of a deferred matcher matched against its own sample:
\* match returned undefined
C16_Witness ==
    /\ Matched
    /\ ~call.inverse
    /\ call.out.result.kind = "promise"
    /\ call.out.result.pass
    /\ call.out.value = Undefined

\* a fluent invocation has just been made
JustInvoked == call' # call /\ call'.op = "invoke"

\* C17: the matcher context is built anew by every fluent invocation: its
\* isNot, promise, soft and poll are the flags of the live assertion of that
\* invocation, and its custom equality testers and utilities are what the
\* accessors return when the invocation is made, whatever they returned when the
\* matcher was registered or when an earlier invocation was made.
C17_ContextFromCallTime ==
    /\ [](call.kind = "fluent" =>
            /\ call.out.state.isNot = call.assertion.negate
            /\ call.out.state.promise = call.assertion.promise
            /\ call.out.state.soft = call.assertion.soft
            /\ call.out.state.poll = call.assertion.poll)
    /\ [][JustInvoked =>
            /\ call'.out.state.customTesters = customTesters
            /\ call'.out.state.utils = MatcherUtils
            /\ call'.out.state =
                 [ambient       |-> call'.expect,
                  customTesters |-> customTesters,
                  isNot         |-> call'.assertion.negate,
                  utils         |-> MatcherUtils,
                  promise       |-> call'.assertion.promise,
                  soft          |-> call'.assertion.soft,
                  poll          |-> call'.assertion.poll]]_vars

\* testers were added after the matcher was registered, and a soft assertion
\* reached through .resolves under poll invoked it: the context has the testers
\* and the three flags
C17_Witness ==
    /\ Invoked
    /\ call.id = extendCount
    /\ lastExtend.testers = <<>>
    /\ call.out.state.customTesters = Testers
    /\ call.out.state.promise = "resolves"
    /\ call.out.state.soft
    /\ call.out.state.poll
    /\ ~call.out.state.isNot

\* samples an asymmetric constructor may be called with (its parameter type is
\* a non-empty tuple): one argument, or two different ones
SampleLists == ArgLists \cup {<<Mock(<<1>>), Num(0)>>}

\* the call in hand is an asymmetric instance
IsInstance == call.kind = "asym"

JustMatched == call' # call /\ call'.op = "match"

C20_AmbientOfLatestRegistrant ==
    /\ [](\A n \in DOMAIN assertionProto :
            /\ n \in DOMAIN registeredBy
            /\ assertionProto[n].expect = registeredBy[n].expect
            /\ assertionProto[n].fn = registeredBy[n].fn)
    /\ [][JustInvoked =>
            /\ call'.out.state.ambient = registeredBy[call'.name].expect
            /\ call'.fn = registeredBy[call'.name].fn]_vars

\* expectA registered N, then expectB registered N with another definition; an
\* assertion made by expectA ran expectB's definition with expectB's state
C20_Witness ==
    /\ Invoked
    /\ call.assertion.from = "expectA"
    /\ call.out.state.ambient = "expectB"
    /\ call.id = extendCount
    /\ call.name \in DOMAIN expectOwn["expectA"]
    /\ expectOwn["expectA"][call.name].fn # call.fn
    /\ call.fn = registeredBy[call.name].fn

====
